---- MODULE Spec2Model ----
(***************************************************************************)
(* A model of immobiscraper.Immobiliare: the field extractor (_get_data),  *)
(* the listing discoverer (get_all_urls) and the crawl orchestrator        *)
(* (find_all_houses).  Text is a sequence of one-character strings, so the *)
(* regular expressions of the source are matched character by character.   *)
(***************************************************************************)
EXTENDS Integers, Sequences, FiniteSets, TLC

(***************************************************************************)
(* Python values.  Every value has the same three fields, so values of     *)
(* different Python types can be compared: None, float('nan'), an int, a   *)
(* float with one decimal (n counts tenths) and a str.                     *)
(***************************************************************************)
NoneV == [k |-> "none", n |-> 0, s |-> <<>>]

NanV == [k |-> "nan", n |-> 0, s |-> <<>>]

IntV(i) == [k |-> "int", n |-> i, s |-> <<>>]

FloatV(tenths) == [k |-> "float", n |-> tenths, s |-> <<>>]

StrV(str) == [k |-> "str", n |-> 0, s |-> str]

(***************************************************************************)
(* Characters.                                                             *)
(***************************************************************************)
Digits == {"0", "1", "2", "3", "4", "5", "6", "7", "8", "9"}

DigitVal(c) ==
  CASE c = "0" -> 0 [] c = "1" -> 1 [] c = "2" -> 2 [] c = "3" -> 3
    [] c = "4" -> 4 [] c = "5" -> 5 [] c = "6" -> 6 [] c = "7" -> 7
    [] c = "8" -> 8 [] c = "9" -> 9

UpperLetters == <<"A", "B", "C", "D", "E", "F", "G", "H", "I", "J", "K", "L", "M", "N", "O", "P", "Q", "R", "S", "T", "U", "V", "W", "X", "Y", "Z">>

LowerLetters == <<"a", "b", "c", "d", "e", "f", "g", "h", "i", "j", "k", "l", "m", "n", "o", "p", "q", "r", "s", "t", "u", "v", "w", "x", "y", "z">>

UpperSet == {UpperLetters[j] : j \in 1..Len(UpperLetters)}

LowerSet == {LowerLetters[j] : j \in 1..Len(LowerLetters)}

IndexIn(c, letters) == CHOOSE j \in 1..Len(letters) : letters[j] = c

ToLower == [c \in UpperSet |-> LowerLetters[IndexIn(c, UpperLetters)]]

ToUpper == [c \in LowerSet |-> UpperLetters[IndexIn(c, LowerLetters)]]

\* str.lower() on one character: only cased letters change.
LowerChar(c) == IF c \in UpperSet THEN ToLower[c] ELSE c

\* str.upper() on one character.
UpperChar(c) == IF c \in LowerSet THEN ToUpper[c] ELSE c

lower(t) == [i \in 1..Len(t) |-> LowerChar(t[i])]

upper(t) == [i \in 1..Len(t) |-> UpperChar(t[i])]

\* w occurs in t at position i (1-based).
StartsAt(t, i, w) ==
  /\ i + Len(w) - 1 <= Len(t)
  /\ \A j \in 1..Len(w) : t[i + j - 1] = w[j]

\* Python's "w in t" for a non-empty w.
Contains(t, w) == \E i \in 1..Len(t) : StartsAt(t, i, w)

RECURSIVE JoinWords(_)
\* ' '.join(words)
JoinWords(words) ==
  IF Len(words) = 0 THEN <<>>
  ELSE IF Len(words) = 1 THEN words[1]
  ELSE words[1] \o <<" ">> \o JoinWords(Tail(words))

(***************************************************************************)
(* Regular expressions.  A pattern is a sequence of items: a literal word, *)
(* a character class with a greedy repetition lo..hi, or the anchor $      *)
(* ("eos"); one capture group spans the items gfrom..gto.                  *)
(***************************************************************************)
Lit(w) == [cls |-> "lit", w |-> w, lo |-> 1, hi |-> 1]

Rep(cls, lo, hi) == [cls |-> cls, w |-> <<>>, lo |-> lo, hi |-> hi]

Eos == [cls |-> "eos", w |-> <<>>, lo |-> 0, hi |-> 0]

\* hi of an unbounded repetition (\d+): no text of the model is this long.
Unbounded == 1000

ClassOK(cls, c) ==
  CASE cls = "d" -> c \in Digits
    [] cls = "D" -> c \notin Digits
    [] cls = "S" -> c # " "
    [] cls = "any" -> TRUE

RECURSIVE RunLen(_, _, _, _)
\* How many characters from position p on are in the class, up to most.
RunLen(t, p, cls, most) ==
  IF most = 0 \/ p > Len(t) THEN 0
  ELSE IF ~ClassOK(cls, t[p]) THEN 0
  ELSE 1 + RunLen(t, p + 1, cls, most - 1)

RECURSIVE MatchFrom(_, _, _, _)
RECURSIVE TryCount(_, _, _, _, _)
\* Backtracking match of the items k.. of pat at position p.  <<>> when there
\* is no match; else the position after each of the items k.. .
MatchFrom(t, p, pat, k) ==
  IF k > Len(pat) THEN <<p>>
  ELSE IF pat[k].cls = "eos"
  THEN IF p = Len(t) + 1 THEN TryCount(t, p, pat, k, 0) ELSE <<>>
  ELSE IF pat[k].cls = "lit"
  THEN IF StartsAt(t, p, pat[k].w) THEN TryCount(t, p, pat, k, Len(pat[k].w)) ELSE <<>>
  ELSE LET run == RunLen(t, p, pat[k].cls, pat[k].hi)
       IN IF run < pat[k].lo THEN <<>> ELSE TryCount(t, p, pat, k, run)

\* Item k takes c characters if the rest then matches, else one fewer (a
\* greedy repetition gives back one character at a time).
TryCount(t, p, pat, k, c) ==
  LET rest == MatchFrom(t, p + c, pat, k + 1)
  IN IF rest # <<>> THEN IF k = Len(pat) THEN rest ELSE <<p + c>> \o rest
     ELSE IF pat[k].cls \in {"eos", "lit"} \/ c <= pat[k].lo THEN <<>>
     ELSE TryCount(t, p, pat, k, c - 1)

RECURSIVE FirstMatch(_, _, _)
\* The leftmost position from p on where the pattern matches: <<>> when there
\* is none, else the start followed by the position after each item.
FirstMatch(t, p, pat) ==
  IF p > Len(t) + 1 THEN <<>>
  ELSE LET m == MatchFrom(t, p, pat, 1)
       IN IF m # <<>> THEN <<p>> \o m ELSE FirstMatch(t, p + 1, pat)

\* re.search(pattern, text): group(1) of the leftmost match, or None.
re_search(pattern, t) ==
  LET m == FirstMatch(t, 1, pattern.items)
  IN IF m = <<>> THEN NoneV
     ELSE StrV(SubSeq(t, m[pattern.gfrom], m[pattern.gto + 1] - 1))

RECURSIVE _extract_pattern(_, _)
\* The group of the first pattern, in the order of the tuple, that matches.
_extract_pattern(t, patterns) ==
  IF Len(patterns) = 0 THEN NoneV
  ELSE LET g == re_search(patterns[1], t)
       IN IF g # NoneV THEN g ELSE _extract_pattern(t, Tail(patterns))

Pattern(items, gfrom, gto) == [items |-> items, gfrom |-> gfrom, gto |-> gto]

\* "€ (\d+\.\d+\.\d+)", "€ (\d+\.\d+)"
cost_patterns ==
  << Pattern(<< Lit(<<"€", " ">>), Rep("d", 1, Unbounded), Lit(<<".">>), Rep("d", 1, Unbounded),
                Lit(<<".">>), Rep("d", 1, Unbounded) >>, 2, 6),
     Pattern(<< Lit(<<"€", " ">>), Rep("d", 1, Unbounded), Lit(<<".">>), Rep("d", 1, Unbounded) >>, 2, 4) >>

\* "piano (\d{1,2})", "(\d{1,2}) piano", "(\d{1,2}) piani"
floor_patterns ==
  << Pattern(<< Lit(<<"p", "i", "a", "n", "o", " ">>), Rep("d", 1, 2) >>, 2, 2),
     Pattern(<< Rep("d", 1, 2), Lit(<<" ", "p", "i", "a", "n", "o">>) >>, 1, 1),
     Pattern(<< Rep("d", 1, 2), Lit(<<" ", "p", "i", "a", "n", "i">>) >>, 1, 1) >>

\* "superficie (\d{1,4}) m"
area_pattern == Pattern(<< Lit(<<"s", "u", "p", "e", "r", "f", "i", "c", "i", "e", " ">>), Rep("d", 1, 4), Lit(<<" ", "m">>) >>, 2, 2)

\* "energetica (\D{1,2}) ", "energetica(\S{1,2})"
energy_patterns ==
  << Pattern(<< Lit(<<"e", "n", "e", "r", "g", "e", "t", "i", "c", "a", " ">>), Rep("D", 1, 2), Lit(<<" ">>) >>, 2, 2),
     Pattern(<< Lit(<<"e", "n", "e", "r", "g", "e", "t", "i", "c", "a">>), Rep("S", 1, 2) >>, 2, 2) >>

\* "post\S auto (\d{1,2})"
car_patterns ==
  << Pattern(<< Lit(<<"p", "o", "s", "t">>), Rep("S", 1, 1), Lit(<<" ", "a", "u", "t", "o", " ">>), Rep("d", 1, 2) >>, 4, 4) >>

\* "possibilit\S.{0,10}auto"; the source only tests whether it matches.
possibilita_pattern ==
  Pattern(<< Lit(<<"p", "o", "s", "s", "i", "b", "i", "l", "i", "t">>), Rep("S", 1, 1), Rep("any", 0, 10), Lit(<<"a", "u", "t", "o">>) >>, 1, 4)

(***************************************************************************)
(* Numbers.                                                                *)
(***************************************************************************)
RECURSIVE DigitsToInt(_)
DigitsToInt(s) ==
  IF Len(s) = 0 THEN 0
  ELSE 10 * DigitsToInt(SubSeq(s, 1, Len(s) - 1)) + DigitVal(s[Len(s)])

\* str.replace(".", "")
RECURSIVE StripDots(_)
StripDots(s) ==
  IF Len(s) = 0 THEN <<>>
  ELSE IF s[1] = "." THEN StripDots(Tail(s))
  ELSE <<s[1]>> \o StripDots(Tail(s))

IsNumeral(s) == Len(s) > 0 /\ \A i \in 1..Len(s) : s[i] \in Digits

\* Whether int(v) returns; it raises TypeError on None and ValueError on nan
\* and on a str that is no numeral.
IntOK(v) ==
  \/ v.k = "int"
  \/ v.k = "float"
  \/ v.k = "str" /\ IsNumeral(v.s)

\* int(v), where it returns; int() of a float truncates towards zero.
IntOf(v) ==
  CASE v.k = "int" -> v.n
    [] v.k = "float" -> IF v.n >= 0 THEN v.n \div 10 ELSE -((-v.n) \div 10)
    [] v.k = "str" -> DigitsToInt(v.s)

\* round(num / den, 1) in tenths, den # 0: the nearest tenth, a tie going to
\* the even one (exact arithmetic stands for the float division).
RoundTenths(num, den) ==
  LET a == IF den > 0 THEN 10 * num ELSE -(10 * num)
      b == IF den > 0 THEN den ELSE -den
      q == a \div b
      r == a % b
  IN IF 2 * r < b THEN q
     ELSE IF 2 * r > b THEN q + 1
     ELSE IF q % 2 = 0 THEN q ELSE q + 1

(***************************************************************************)
(* The field extractor.  cfg holds the attributes __init__ stores; page is *)
(* what _get_page returned: the words BeautifulSoup's get_text().split()   *)
(* yields (none for the empty BytesIO of a timed-out request).             *)
(***************************************************************************)
\* _get_text: ' '.join(soup.get_text().split())
_get_text(p) == JoinWords(p.words)

\* Lines 83-95.
ExtractCost(t, cfg) ==
  LET cost == _extract_pattern(t, cost_patterns)
  IN IF cost # NoneV
     THEN IF DigitsToInt(StripDots(cost.s)) < cfg.min_house_cost
          THEN [v |-> NoneV, log |-> "too_low"]
          ELSE [v |-> StrV(StripDots(cost.s)), log |-> "none"]
     ELSE IF Contains(t, <<"p", "r", "e", "z", "z", "o", " ", "s", "u", " ", "r", "i", "c", "h", "i", "e", "s", "t", "a">>)
          THEN [v |-> cfg.price_not_found, log |-> "on_request"]
          ELSE [v |-> cfg.price_not_found, log |-> "cant_get"]

\* Lines 98-105.
ExtractFloor(t, cfg) ==
  IF Contains(t, <<"p", "i", "a", "n", "o", " ", "t", "e", "r", "r", "a">>) THEN IntV(1)
  ELSE _extract_pattern(t, floor_patterns)

\* Lines 109-112.
ExtractArea(t, cfg) ==
  LET area == _extract_pattern(t, <<area_pattern>>)
  IN IF area = NoneV THEN cfg.area_not_found ELSE area

\* Line 120: energy and energy[0] in "ABCDEF" and energy[-1] in "0123456789+"
EnergyGate(energy) ==
  /\ energy # NoneV
  /\ energy.s[1] \in {"A", "B", "C", "D", "E", "F"}
  /\ energy.s[Len(energy.s)] \in Digits \cup {"+"}

\* Lines 115-128.
ExtractEnergy(t, cfg) ==
  LET energy == _extract_pattern(t, energy_patterns)
  IN IF EnergyGate(energy)
     THEN [v |-> StrV(upper(energy.s)), log |-> "none"]
     ELSE IF Contains(t, <<"i", "n", " ", "a", "t", "t", "e", "s", "a", " ", "d", "i", " ", "c", "e", "r", "t", "i", "f", "i", "c", "a", "z", "i", "o", "n", "e">>)
          THEN [v |-> cfg.energy_not_found, log |-> "pending"]
          ELSE [v |-> cfg.energy_not_found, log |-> "cant_get"]

\* Lines 131-138.
ExtractCar(t, cfg) ==
  LET car == _extract_pattern(t, car_patterns)
  IN IF car = NoneV
     THEN IF re_search(possibilita_pattern, t) # NoneV
          THEN IntV(0)
          ELSE cfg.car_not_found
     ELSE car

\* Lines 141-144: any exception of int() or of the division gives the
\* sentinel.
PricePerArea(cost, area, cfg) ==
  IF IntOK(cost) /\ IntOK(area) /\ IntOf(area) # 0
  THEN FloatV(RoundTenths(IntOf(cost), IntOf(area)))
  ELSE cfg.invalid_price_per_area

\* Lines 74-159, given the page the request for sub_url returned.
_get_data(sub_url, page, cfg) ==
  LET t == lower(_get_text(page))
      cost == ExtractCost(t, cfg)
      area == ExtractArea(t, cfg)
      energy == ExtractEnergy(t, cfg)
  IN [cost |-> cost.v,
      price_per_area |-> PricePerArea(cost.v, area, cfg),
      floor |-> ExtractFloor(t, cfg),
      area |-> area,
      ultimo |-> Contains(t, <<"u", "l", "t", "i", "m", "o">>),
      url |-> sub_url,
      energy |-> energy.v,
      posto_auto |-> ExtractCar(t, cfg),
      cost_log |-> cost.log,
      energy_log |-> energy.log]

(***************************************************************************)
(* Bounds of the model.                                                    *)
(***************************************************************************)
\* Fragments of text one listing page is put together from (SpecExtract).
MaxFragments == 2

\* Anchors on one search-result page.
MaxAnchors == 1

\* Search-result pages the site has, and listing links on all of them together,
\* in the crawl (Spec); a site that ends answers every later page with a
\* not-found page.
CrawlSitePages == 2

CrawlMaxUrls == 2

\* The same for discovery alone (SpecDiscover).
SitePages == 3

MaxUrls == 3

\* Search-result pages of the endlessly paginating site that carry anchors, and
\* listing links on them (SpecCeiling).
EndlessSitePages == 0

EndlessMaxUrls == 0

\* Calls of find_all_houses and of get_all_urls on one instance.
MaxCalls == 2

(***************************************************************************)
(* Program constants.                                                      *)
(***************************************************************************)
PageCeilingOffByOne == 10000 + 1

\* range(2, 10_000)
PageCeiling == 10000

\* ThreadPoolExecutor(max_workers=10)
max_workers == 10

(***************************************************************************)
(* The configurations of __init__ the model draws from.                    *)
(***************************************************************************)
Config(min_house_cost, browse_all_pages, area_nf, price_nf, invalid) ==
  [min_house_cost |-> min_house_cost,
   browse_all_pages |-> browse_all_pages,
   area_not_found |-> area_nf,
   price_not_found |-> price_nf,
   floor_not_found |-> IntV(0),
   car_not_found |-> IntV(0),
   energy_not_found |-> StrV(<<"n", "/", "a">>),
   invalid_price_per_area |-> invalid]

\* The defaults of __init__ (min_house_cost = 100, price_not_found = nan, ...).
DefaultConfig == Config(100, TRUE, IntV(0), NanV, IntV(0))

ExtractConfigs ==
  {Config(m, TRUE, a, p, v) :
     m \in {100, 100000}, a \in {IntV(0), IntV(1)},
     p \in {NanV, IntV(0)}, v \in {IntV(0), IntV(0 - 1)}}

CrawlConfigs == {Config(100, b, IntV(0), NanV, IntV(0)) : b \in BOOLEAN}

(***************************************************************************)
(* The pages the site serves.  A listing page is the sequence of its       *)
(* words; a search-result page has words and the href of each anchor.      *)
(***************************************************************************)
Fragments ==
  { << <<"€">>, <<"5", "0", ".", "0", "0", "0">> >>,
    << <<"€">>, <<"1", "5", "0", ".", "0", "0", "0">> >>,
    << <<"€">>, <<"1", ".", "2", "5", "0", ".", "0", "0", "0">> >>,
    << <<"P", "r", "e", "z", "z", "o">>, <<"s", "u">>, <<"r", "i", "c", "h", "i", "e", "s", "t", "a">> >>,
    << <<"P", "i", "a", "n", "o">>, <<"3">> >>,
    << <<"p", "i", "a", "n", "o">>, <<"t", "e", "r", "r", "a">> >>,
    << <<"2">>, <<"p", "i", "a", "n", "i">> >>,
    << <<"u", "l", "t", "i", "m", "o">> >>,
    << <<"s", "u", "p", "e", "r", "f", "i", "c", "i", "e">>, <<"5", "0">>, <<"m">> >>,
    << <<"s", "u", "p", "e", "r", "f", "i", "c", "i", "e">>, <<"0">>, <<"m">> >>,
    << <<"e", "n", "e", "r", "g", "e", "t", "i", "c", "a">>, <<"B", "+">> >>,
    << <<"e", "n", "e", "r", "g", "e", "t", "i", "c", "a">>, <<"z", "9">> >>,
    << <<"e", "n", "e", "r", "g", "e", "t", "i", "c", "a", "A", "1">> >>,
    << <<"i", "n">>, <<"a", "t", "t", "e", "s", "a">>, <<"d", "i">>, <<"c", "e", "r", "t", "i", "f", "i", "c", "a", "z", "i", "o", "n", "e">> >>,
    << <<"p", "o", "s", "t", "o">>, <<"a", "u", "t", "o">>, <<"2">> >>,
    << <<"p", "o", "s", "s", "i", "b", "i", "l", "i", "t", "à">>, <<"p", "o", "s", "t", "o">>, <<"a", "u", "t", "o">> >> }

RECURSIVE Flatten(_)
Flatten(seqs) == IF Len(seqs) = 0 THEN <<>> ELSE seqs[1] \o Flatten(Tail(seqs))

SeqsUpTo(S, n) == UNION {[1..m -> S] : m \in 0..n}

ExtractPages == {Flatten(fs) : fs \in SeqsUpTo(Fragments, MaxFragments)}

ListingPages == { << <<"€">>, <<"1", "5", "0", ".", "0", "0", "0">>, <<"s", "u", "p", "e", "r", "f", "i", "c", "i", "e">>, <<"5", "0">>, <<"m">>, <<"P", "i", "a", "n", "o">>, <<"3">> >> }

GoodHrefs == { StrV(<<"h", "t", "t", "p", "s", ":", "/", "/", "a", "/", "a", "n", "n", "u", "n", "c", "i", "/", "1", "/">>), StrV(<<"h", "t", "t", "p", "s", ":", "/", "/", "a", "/", "a", "n", "n", "u", "n", "c", "i", "/", "2", "/">>) }

Hrefs == GoodHrefs \cup { StrV(<<"h", "t", "t", "p", "s", ":", "/", "/", "a", "/", "a", "n", "n", "u", "n", "c", "i", "/", "3">>), StrV(<<"h", "t", "t", "p", ":", "/", "/", "a", "/", "a", "n", "n", "u", "n", "c", "i", "/", "4", "/">>),
                          StrV(<<"h", "t", "t", "p", "s", ":", "/", "/", "a", "/", "a", "g", "e", "n", "z", "i", "e", "/", "5", "/">>), NoneV }

SearchTexts ==
  { << <<"C", "a", "s", "e">>, <<"i", "n">>, <<"v", "e", "n", "d", "i", "t", "a">> >>,
    << <<"4", "0", "4">>, <<"N", "o", "t">>, <<"F", "o", "u", "n", "d">> >>,
    << <<"L", "a">>, <<"p", "a", "g", "i", "n", "a">>, <<"n", "o", "n">>, <<"è">>, <<"p", "r", "e", "s", "e", "n", "t", "e">> >> }

SearchPage(words, anchors) == [words |-> words, anchors |-> anchors]

\* BytesIO(): what a request that timed out leaves to parse.
EmptySearchPage == SearchPage(<<>>, <<>>)

AnchorLists == SeqsUpTo(Hrefs, MaxAnchors)

\* What requests.get does: it returns a page, or raises Timeout.
Outcome(timeout, p) == [timeout |-> timeout, page |-> p]

\* _get_page: the page, or an empty BytesIO when the request timed out.
_get_page(outcome) == IF outcome.timeout THEN EmptySearchPage ELSE outcome.page

IsNotFoundTextOnly404(t) == Contains(t, <<"4", "0", "4", " ", "n", "o", "t", " ", "f", "o", "u", "n", "d">>)

\* Line 181: "404 not found" in t or "non è presente" in t
IsNotFoundText(t) == Contains(t, <<"4", "0", "4", " ", "n", "o", "t", " ", "f", "o", "u", "n", "d">>) \/ Contains(t, <<"n", "o", "n", " ", "è", " ", "p", "r", "e", "s", "e", "n", "t", "e">>)

\* re.compile of the pattern: digits, a slash, the end of the string
id_pattern == Pattern(<< Rep("d", 1, Unbounded), Lit(<<"/">>), Eos >>, 1, 2)

\* Lines 173 and 188: l and "https" in l and "annunci" in l and pattern.search(l)
IsListingLink(l) ==
  /\ l # NoneV
  /\ Len(l.s) > 0
  /\ Contains(l.s, <<"h", "t", "t", "p", "s">>)
  /\ Contains(l.s, <<"a", "n", "n", "u", "n", "c", "i">>)
  /\ re_search(id_pattern, l.s) # NoneV

\* The loop over soup.find_all("a"): the hrefs that pass the filter, in order.
ListingLinks(anchors) == SelectSeq(anchors, IsListingLink)

VARIABLES
  cfg,        \* the attributes __init__ stored
  page,       \* SpecExtract: the page handed to _get_data
  rec,        \* SpecExtract: <<>>, or the record _get_data returned
  urls_,      \* the attribute urls_: set says whether the instance has it
  df_,        \* the attribute df_: the rows of the DataFrame
  pc,         \* where the caller is: "idle", "get_all_urls", "find_all_houses"
  dpc,        \* get_all_urls: "none", "first", "text", "links"
  i,          \* get_all_urls: the loop variable
  acc,        \* get_all_urls: the local list urls_
  tasks,      \* find_all_houses: the tasks of executor.map, one per URL
  calls,      \* calls made so far
  site,       \* the site: how many pages it has, and whether it ends
  linkLog,    \* history: every link appended, with the page and response it came from
  stopPage,   \* history: the first page whose text had a not-found phrase, or 0
  maxPage,    \* history: the highest page number requested by this discovery
  requests,   \* history: the requests this discovery issued
  afterBad,   \* history: 0, 1 once a page past the first came back not-found, 2 once a request followed
  findRuns    \* history: per call of find_all_houses, whether it ran discovery and its URLs

vars == <<cfg, page, rec, urls_, df_, pc, dpc, i, acc, tasks, calls, site,
          linkLog, stopPage, maxPage, requests, afterBad, findRuns>>

discoveryVars == <<dpc, i, acc, linkLog, stopPage, maxPage, requests, afterBad>>

NoAttr == [set |-> FALSE, v |-> <<>>]

Attr(v) == [set |-> TRUE, v |-> v]

\* The instance after __init__, before any call.
Fresh ==
  /\ urls_ = NoAttr
  /\ df_ = NoAttr
  /\ pc = "idle"
  /\ dpc = "none"
  /\ i = 0
  /\ acc = <<>>
  /\ tasks = <<>>
  /\ linkLog = <<>>
  /\ stopPage = 0
  /\ maxPage = 0
  /\ requests = 0
  /\ afterBad = 0
  /\ findRuns = <<>>

(***************************************************************************)
(* The site's answers.  Past its last page a site that ends serves a       *)
(* not-found page; an endless one serves pages without anchors, or lets    *)
(* the request time out.                                                   *)
(***************************************************************************)
SearchOutcomes(n) ==
  IF n <= site.pages
  THEN {Outcome(FALSE, SearchPage(w, a)) : w \in SearchTexts, a \in AnchorLists}
       \cup {Outcome(TRUE, EmptySearchPage)}
  ELSE IF site.ends
  THEN {Outcome(FALSE, SearchPage(w, <<>>)) : w \in {x \in SearchTexts : IsNotFoundText(lower(JoinWords(x)))}}
  ELSE {Outcome(FALSE, SearchPage(w, <<>>)) : w \in SearchTexts}
       \cup {Outcome(TRUE, EmptySearchPage)}

ListingOutcomes ==
  {Outcome(FALSE, SearchPage(w, <<>>)) : w \in ListingPages}
  \cup {Outcome(TRUE, EmptySearchPage)}

\* The history's own reading of a response: its normalized, case-folded text
\* has one of the two not-found phrases.
HasNotFoundPhrase(t) == Contains(t, <<"4", "0", "4", " ", "n", "o", "t", " ", "f", "o", "u", "n", "d">>) \/ Contains(t, <<"n", "o", "n", " ", "è", " ", "p", "r", "e", "s", "e", "n", "t", "e">>)

\* The history of not-found responses, after a request answered with text t.
NextAfterBad(t) == IF afterBad >= 1 THEN 2 ELSE IF HasNotFoundPhrase(t) THEN 1 ELSE 0

Logged(n, p) ==
  LET links == ListingLinks(p.anchors)
  IN [j \in 1..Len(links) |->
        [page |-> n, url |-> links[j], notfound |-> HasNotFoundPhrase(lower(_get_text(p)))]]

(***************************************************************************)
(* get_all_urls.                                                           *)
(***************************************************************************)
\* Lines 163-164: the locals at entry; the history starts again.
EnterGetAllUrls ==
  /\ dpc' = "first"
  /\ i' = 0
  /\ acc' = <<>>
  /\ linkLog' = <<>>
  /\ stopPage' = 0
  /\ maxPage' = 0
  /\ requests' = 0
  /\ afterBad' = 0

\* Lines 191-193 and the return to the caller: find_all_houses goes on to
\* executor.map, which takes one task per URL.
LeaveGetAllUrls(result) ==
  /\ urls_' = Attr(result)
  /\ dpc' = "none"
  /\ IF pc = "find_all_houses"
     THEN /\ tasks' = [j \in 1..Len(result) |-> [st |-> "queued", timeout |-> FALSE, rec |-> <<>>]]
          /\ findRuns' = Append(findRuns, [discovered |-> TRUE, urls |-> result])
          /\ pc' = pc
     ELSE /\ pc' = "idle"
          /\ UNCHANGED <<tasks, findRuns>>

\* Lines 167-176: page 1.
FetchFirstPage ==
  /\ dpc = "first"
  /\ \E o \in SearchOutcomes(1) :
       LET p == _get_page(o)
           found == ListingLinks(p.anchors)
       IN /\ Len(found) <= site.maxUrls
          /\ linkLog' = Logged(1, p)
          /\ maxPage' = 1
          /\ requests' = requests + 1
          /\ stopPage' = stopPage
          /\ afterBad' = afterBad
          /\ IF cfg.browse_all_pages /\ 2 < PageCeiling
             THEN /\ dpc' = "text"
                  /\ i' = 2
                  /\ acc' = found
                  /\ UNCHANGED <<urls_, pc, tasks, findRuns>>
             ELSE /\ i' = i
                  /\ acc' = found
                  /\ LeaveGetAllUrls(found)
  /\ UNCHANGED <<cfg, page, rec, df_, calls, site>>

\* Lines 178-182: the text of page i, and the break.
FetchPageText ==
  /\ dpc = "text"
  /\ \E o \in SearchOutcomes(i) :
       LET t == lower(_get_text(_get_page(o)))
       IN /\ maxPage' = i
          /\ requests' = requests + 1
          /\ stopPage' = IF stopPage = 0 /\ HasNotFoundPhrase(t) THEN i ELSE stopPage
          /\ afterBad' = NextAfterBad(t)
          /\ IF IsNotFoundText(t)
             THEN /\ LeaveGetAllUrls(acc)
                  /\ UNCHANGED <<i, acc, linkLog>>
             ELSE /\ dpc' = "links"
                  /\ UNCHANGED <<i, acc, linkLog, urls_, pc, tasks, findRuns>>
  /\ UNCHANGED <<cfg, page, rec, df_, calls, site>>

\* Lines 184-189: page i again, for its links; then the next i, or the end of
\* the range.
FetchPageLinks ==
  /\ dpc = "links"
  /\ \E o \in SearchOutcomes(i) :
       LET p == _get_page(o)
           found == acc \o ListingLinks(p.anchors)
       IN /\ Len(found) <= site.maxUrls
          /\ linkLog' = linkLog \o Logged(i, p)
          /\ requests' = requests + 1
          /\ afterBad' = NextAfterBad(lower(_get_text(p)))
          /\ acc' = found
          /\ i' = i + 1
          /\ UNCHANGED <<maxPage, stopPage>>
          /\ IF i + 1 < PageCeiling
             THEN /\ dpc' = "text"
                  /\ UNCHANGED <<urls_, pc, tasks, findRuns>>
             ELSE LeaveGetAllUrls(found)
  /\ UNCHANGED <<cfg, page, rec, df_, calls, site>>

\* A caller calls get_all_urls.
CallGetAllUrls ==
  /\ pc = "idle"
  /\ calls < MaxCalls
  /\ calls' = calls + 1
  /\ pc' = "get_all_urls"
  /\ EnterGetAllUrls
  /\ UNCHANGED <<cfg, page, rec, urls_, df_, tasks, site, findRuns>>

(***************************************************************************)
(* find_all_houses.                                                        *)
(***************************************************************************)
NeedsDiscoveryAlways == TRUE

\* Line 197: not hasattr(self, "urls_")
NeedsDiscovery == ~urls_.set

\* Lines 197-201: discovery when the instance has no urls_, else straight to
\* executor.map over self.urls_.
CallFindAllHouses ==
  /\ pc = "idle"
  /\ calls < MaxCalls
  /\ calls' = calls + 1
  /\ pc' = "find_all_houses"
  /\ IF NeedsDiscovery
     THEN /\ EnterGetAllUrls
          /\ UNCHANGED <<tasks, findRuns>>
     ELSE /\ tasks' = [j \in 1..Len(urls_.v) |-> [st |-> "queued", timeout |-> FALSE, rec |-> <<>>]]
          /\ findRuns' = Append(findRuns, [discovered |-> FALSE, urls |-> urls_.v])
          /\ UNCHANGED discoveryVars
  /\ UNCHANGED <<cfg, page, rec, urls_, df_, site>>

Mapping == pc = "find_all_houses" /\ dpc = "none"

\* A worker thread of the pool takes the next task of the queue.
WorkerTake(j) ==
  /\ Mapping
  /\ tasks[j].st = "queued"
  /\ \A m \in 1..(j - 1) : tasks[m].st # "queued"
  /\ Cardinality({m \in 1..Len(tasks) : tasks[m].st = "running"}) < max_workers
  /\ tasks' = [tasks EXCEPT ![j].st = "running"]
  /\ UNCHANGED <<cfg, page, rec, urls_, df_, pc, calls, site, findRuns>>
  /\ UNCHANGED discoveryVars

\* The worker runs _get_data on its URL: one request, then the extraction.
WorkerGetData(j) ==
  /\ Mapping
  /\ tasks[j].st = "running"
  /\ \E o \in ListingOutcomes :
       tasks' = [tasks EXCEPT ![j] = [st |-> "done", timeout |-> o.timeout,
                                      rec |-> <<_get_data(urls_.v[j], _get_page(o), cfg)>>]]
  /\ UNCHANGED <<cfg, page, rec, urls_, df_, pc, calls, site, findRuns>>
  /\ UNCHANGED discoveryVars

\* Lines 201-205: list(executor.map(...)) has every result, in the order of
\* self.urls_; the DataFrame is built from it.
BuildDataFrame ==
  /\ Mapping
  /\ \A j \in 1..Len(tasks) : tasks[j].st = "done"
  /\ df_' = Attr([j \in 1..Len(tasks) |-> tasks[j].rec[1]])
  /\ tasks' = <<>>
  /\ pc' = "idle"
  /\ UNCHANGED <<cfg, page, rec, urls_, calls, site, findRuns>>
  /\ UNCHANGED discoveryVars

(***************************************************************************)
(* The crawl: calls of find_all_houses on one instance, against a site     *)
(* that ends.                                                              *)
(***************************************************************************)
Init ==
  /\ cfg \in CrawlConfigs
  /\ page = EmptySearchPage
  /\ rec = <<>>
  /\ calls = 0
  /\ site = [pages |-> CrawlSitePages, ends |-> TRUE, maxUrls |-> CrawlMaxUrls]
  /\ Fresh

Next ==
  \/ CallFindAllHouses
  \/ FetchFirstPage
  \/ FetchPageText
  \/ FetchPageLinks
  \/ \E j \in 1..Len(tasks) : WorkerTake(j)
  \/ \E j \in 1..Len(tasks) : WorkerGetData(j)
  \/ BuildDataFrame

Spec == Init /\ [][Next]_vars

(***************************************************************************)
(* One call of get_all_urls, against a site that ends.                     *)
(***************************************************************************)
InitDiscover ==
  /\ cfg \in CrawlConfigs
  /\ page = EmptySearchPage
  /\ rec = <<>>
  /\ calls = MaxCalls - 1
  /\ site = [pages |-> SitePages, ends |-> TRUE, maxUrls |-> MaxUrls]
  /\ Fresh

NextDiscover ==
  \/ CallGetAllUrls
  \/ FetchFirstPage
  \/ FetchPageText
  \/ FetchPageLinks

SpecDiscover == InitDiscover /\ [][NextDiscover]_vars

(***************************************************************************)
(* Discovery against a site that paginates without end.                    *)
(***************************************************************************)
InitCeiling ==
  /\ cfg = DefaultConfig
  /\ page = EmptySearchPage
  /\ rec = <<>>
  /\ calls = MaxCalls - 1
  /\ site = [pages |-> EndlessSitePages, ends |-> FALSE, maxUrls |-> EndlessMaxUrls]
  /\ Fresh

NextCeiling ==
  \/ CallGetAllUrls
  \/ FetchFirstPage
  \/ FetchPageText
  \/ FetchPageLinks

SpecCeiling == InitCeiling /\ [][NextCeiling]_vars

(***************************************************************************)
(* The field extractor alone, on every page and configuration of the       *)
(* bounds.                                                                 *)
(***************************************************************************)
sub_url == StrV(<<"h", "t", "t", "p", "s", ":", "/", "/", "a", "/", "a", "n", "n", "u", "n", "c", "i", "/", "1", "/">>)

InitExtract ==
  /\ cfg \in ExtractConfigs
  /\ page \in {SearchPage(w, <<>>) : w \in ExtractPages}
  /\ rec = <<>>
  /\ calls = 0
  /\ site = [pages |-> SitePages, ends |-> TRUE, maxUrls |-> MaxUrls]
  /\ Fresh

Extract ==
  /\ rec = <<>>
  /\ rec' = <<_get_data(sub_url, page, cfg)>>
  /\ UNCHANGED <<cfg, page, urls_, df_, pc, tasks, calls, site, findRuns>>
  /\ UNCHANGED discoveryVars

NextExtract == Extract

SpecExtract == InitExtract /\ [][NextExtract]_vars

(***************************************************************************)
(* The claims about the field extractor (SpecExtract).                     *)
(***************************************************************************)
Extracted == rec # <<>>

\* The text _get_data works on.
t_ == lower(_get_text(page))

\* The cost the patterns select, as a number, or -1 when none matches.
SelectedCost ==
  LET c == _extract_pattern(t_, cost_patterns)
  IN IF c = NoneV THEN 0 - 1 ELSE DigitsToInt(StripDots(c.s))

\* The area the pattern selects, as a number, or -1 when it does not match.
SelectedArea ==
  LET a == _extract_pattern(t_, <<area_pattern>>)
  IN IF a = NoneV THEN 0 - 1 ELSE DigitsToInt(a.s)

\* Python's == between two values: an int and a float with the same value are
\* equal.
PyEq(a, b) ==
  IF a.k \in {"int", "float"} /\ b.k \in {"int", "float"}
  THEN (IF a.k = "int" THEN 10 * a.n ELSE a.n) = (IF b.k = "int" THEN 10 * b.n ELSE b.n)
  ELSE a = b

\* C1: every field of the record _get_data returns is non-null, for every page
\* text (the empty text of a timed-out fetch included) and every configuration.
C1_EveryFieldNonNull ==
  Extracted =>
    /\ rec[1].cost # NoneV
    /\ rec[1].price_per_area # NoneV
    /\ rec[1].floor # NoneV
    /\ rec[1].area # NoneV
    /\ rec[1].energy # NoneV
    /\ rec[1].posto_auto # NoneV
    /\ rec[1].url # NoneV

\* C2: when the cost pattern selected by priority parses to a value below the
\* configured minimum price, the record's cost is the configured
\* price-not-found sentinel.
C2_RejectedCostIsSentinel ==
  (Extracted /\ SelectedCost >= 0 /\ SelectedCost < cfg.min_house_cost)
    => rec[1].cost = cfg.price_not_found

\* C3: on the case-folded text, the energy candidate captured after
\* "energetica" is accepted exactly when its first character is a letter A-F
\* and its last a digit or '+', and is then returned in uppercase; otherwise
\* the record holds the energy-not-found sentinel.
C3_EnergyGateOnFoldedText ==
  Extracted =>
    LET cand == _extract_pattern(t_, energy_patterns)
        accepted == /\ cand # NoneV
                    /\ UpperChar(cand.s[1]) \in {"A", "B", "C", "D", "E", "F"}
                    /\ cand.s[Len(cand.s)] \in Digits \cup {"+"}
    IN rec[1].energy = IF accepted THEN StrV(upper(cand.s)) ELSE cfg.energy_not_found

\* C7: price_per_area is cost/area rounded to one decimal when both were parsed
\* from the text (the cost not rejected) and the area is not zero, and is the
\* invalid-price-per-area sentinel in every other case, whatever the sentinels
\* are.
C7_PricePerAreaOnlyFromParsed ==
  Extracted =>
    IF SelectedCost >= cfg.min_house_cost /\ SelectedArea > 0
    THEN rec[1].price_per_area = FloatV(RoundTenths(SelectedCost, SelectedArea))
    ELSE PyEq(rec[1].price_per_area, cfg.invalid_price_per_area)

(***************************************************************************)
(* The claims about discovery (SpecDiscover, SpecCeiling).                 *)
(***************************************************************************)
\* The URLs the history has from the pages before page k, in order.
UrlsBefore(k) ==
  LET Before(e) == e.page < k
      kept == SelectSeq(linkLog, Before)
  IN [j \in 1..Len(kept) |-> kept[j].url]

DiscoveryDone == dpc = "none" /\ urls_.set

\* C4: with browse_all_pages, if page k >= 2 is the first page whose text has a
\* not-found phrase, get_all_urls returns exactly the listing URLs found on the
\* pages 1..k-1 and requests no page after page k.
C4_PaginationStop ==
  (DiscoveryDone /\ cfg.browse_all_pages /\ stopPage >= 2)
    => /\ urls_.v = UrlsBefore(stopPage)
       /\ \A j \in 1..Len(linkLog) : linkLog[j].page < stopPage
       /\ maxPage = stopPage

\* C4 happens: page 4 is the first not-found page and the pages 1, 2 and 3 each
\* gave a listing URL.
C4_Witness ==
  /\ DiscoveryDone
  /\ stopPage = 4
  /\ Len(urls_.v) = 3
  /\ \A j \in 1..3 : linkLog[j].page = j

\* C9: past page 1, a link is appended only from a response whose own text has
\* no not-found phrase, and no request is issued after a response that has one.
C9_LinksOnlyFromCheckedResponse ==
  /\ \A j \in 1..Len(linkLog) : linkLog[j].page >= 2 => ~linkLog[j].notfound
  /\ afterBad # 2

\* C8: whatever the site does, discovery requests no page number above 9,999
\* (at most 2 * 9,998 + 1 requests, each page past the first being requested
\* twice), and when the range is used up it has stored urls_ and returned.
C8_HardCeiling ==
  /\ maxPage <= 9999
  /\ requests <= 2 * 9998 + 1
  /\ i >= 10000 => (dpc = "none" /\ urls_ = Attr(acc) /\ pc = "idle")

\* C8 happens: no page up to 9,999 had a not-found phrase and discovery ended.
C8_Witness ==
  /\ maxPage = 9999
  /\ stopPage = 0
  /\ i = 10000
  /\ DiscoveryDone

(***************************************************************************)
(* The claims about the crawl (Spec).                                      *)
(***************************************************************************)
RowUrls == {df_.v[j].url : j \in 1..Len(df_.v)}

\* C5: the aggregate holds exactly one record per discovered URL: no URL is
\* missing and no URL is in two records.
C5_OneRecordPerUrl ==
  (df_.set /\ urls_.set) =>
    /\ RowUrls = {urls_.v[j] : j \in 1..Len(urls_.v)}
    /\ \A a, b \in 1..Len(df_.v) : df_.v[a].url = df_.v[b].url => a = b

\* C6: the record of a URL whose fetch timed out has every extracted field at
\* its configured not-found sentinel, and the crawl ends with one record per
\* URL.
C6_TimeoutGivesSentinels ==
  /\ \A j \in 1..Len(tasks) :
       (tasks[j].st = "done" /\ tasks[j].timeout) =>
         /\ tasks[j].rec[1].cost = cfg.price_not_found
         /\ tasks[j].rec[1].floor = cfg.floor_not_found
         /\ tasks[j].rec[1].area = cfg.area_not_found
         /\ tasks[j].rec[1].energy = cfg.energy_not_found
         /\ tasks[j].rec[1].posto_auto = cfg.car_not_found
         /\ PyEq(tasks[j].rec[1].price_per_area, cfg.invalid_price_per_area)
  /\ (df_.set /\ urls_.set) => Len(df_.v) = Len(urls_.v)

\* C10: over the calls of find_all_houses on one instance, only the first runs
\* discovery; every later call requests no search-result page and works on the
\* URL list of the first.
C10_DiscoveryAtMostOnce ==
  /\ calls >= 2 => dpc = "none"
  /\ \A n \in 1..Len(findRuns) :
       IF n = 1 THEN findRuns[n].discovered
       ELSE ~findRuns[n].discovered /\ findRuns[n].urls = findRuns[1].urls

\* C10 happens: a second call of find_all_houses has built its DataFrame from a
\* URL list that is not empty.
C10_Witness ==
  /\ Len(findRuns) = 2
  /\ pc = "idle"
  /\ df_.set
  /\ Len(df_.v) >= 1

====
